---------------------------- MODULE Spec2Model ----------------------------
(***************************************************************************)
(* RSVP reader: the Index page (upload -> parsing -> ready / error), the   *)
(* tokenizer's second pass and the RSVPPlayer component.                   *)
(*                                                                         *)
(* The player is a React function component.  Its state lives in useState  *)
(* hooks; a handler only ENQUEUES updates (setIsPlaying, setCurrentIndex); *)
(* the updates are applied by the next render; the passive effects of a    *)
(* commit (useEffect bodies and the cleanups of the previous ones) run in  *)
(* a later step; a timer created by setTimeout fires as a step of its own  *)
(* as long as clearTimeout has not removed it.  These four kinds of step   *)
(* interleave, which is what the concurrency properties are about.         *)
(***************************************************************************)
EXTENDS Integers, Sequences, FiniteSets, TLC

(* ------------------------------ bounds -------------------------------- *)
\* longest document, in non-empty lines
MaxLines == 2
\* longest queue of state updates waiting for a render
MaxQueue == 3
\* largest token count the pure functions are applied to
MaxCount == 50
\* the largest number of lines of the texts handed to tokenizeText
MaxTextLines == 4
\* the largest number of itemref elements in the spine of an archive
MaxSpine == 3

(* ------------------------- program constants -------------------------- *)
DefaultWpm == 300
SliderMin == 100
SliderMax == 1000
SliderStep == 50
SkipStep == 10
MsPerMinute == 60000

SpeedPresets == {200, 300, 500, 700}
SliderValues == {v \in SliderMin..SliderMax : (v - SliderMin) % SliderStep = 0}
\* a slider that lets the thumb go one step past its maximum
SpeedInputsPastMax == {SliderMax + SliderStep}

\* the speed tried besides the default: the upper end of the slider
SpeedInputs == {v \in SliderValues \cup SpeedPresets : v = SliderMax}
\* the progress slider runs from 0 to PercentMax in steps of 0.1: position k
\* of its StepsPerPercent * PercentMax steps stands for the double k / 10
PercentMax == 100
StepsPerPercent == 10
SliderPositions == 0..(StepsPerPercent * PercentMax)
\* the slider positions tried on a mounted player: both ends and the middle
SeekInputs == {k \in SliderPositions : k % 500 = 0}

Min(a, b) == IF a < b THEN a ELSE b
Max(a, b) == IF a > b THEN a ELSE b

(* ------------------------ JavaScript numbers -------------------------- *)
\* A Number is an IEEE 754 double.  A non-negative double is kept as its
\* significand, SigBits binary digits with the leading one first, and the
\* exponent of that leading digit: the value is the sum of
\* sig[k] * 2^(exp + 1 - k).  Zero has the empty significand.  Every
\* operation rounds its exact result to the nearest double, ties to even.
\* The long division and multiplication work on limbs of LimbBits digits.
SigBits == 53
LimbBits == 11
LimbBase == 2048
\* digits of a quotient before rounding, and of a padded factor
QuotientBits == 66
FactorBits == 55

Zero == [sig |-> <<>>, exp |-> 0]

Zeros(n) == [k \in 1..n |-> 0]

\* the integer written by LimbBits binary digits
IntOfLimb(b) ==
  1024 * b[1] + 512 * b[2] + 256 * b[3] + 128 * b[4] + 64 * b[5] + 32 * b[6]
    + 16 * b[7] + 8 * b[8] + 4 * b[9] + 2 * b[10] + b[11]

\* the LimbBits binary digits of an integer below LimbBase
DigitsOfLimb(l) ==
  << (l \div 1024) % 2, (l \div 512) % 2, (l \div 256) % 2, (l \div 128) % 2,
     (l \div 64) % 2, (l \div 32) % 2, (l \div 16) % 2, (l \div 8) % 2,
     (l \div 4) % 2, (l \div 2) % 2, l % 2 >>

ToLimbs(digits) ==
  [j \in 1..(Len(digits) \div LimbBits) |->
     IntOfLimb(SubSeq(digits, LimbBits * (j - 1) + 1, LimbBits * j))]

RECURSIVE ToDigits(_)
ToDigits(limbs) ==
  IF limbs = <<>> THEN <<>>
  ELSE DigitsOfLimb(Head(limbs)) \o ToDigits(Tail(limbs))

\* bits + 1, as a pair <<carry out, digits>>
Increment(bits) ==
  IF \A k \in 1..Len(bits) : bits[k] = 1 THEN <<1, Zeros(Len(bits))>>
  ELSE LET p == CHOOSE k \in 1..Len(bits) :
                  bits[k] = 0 /\ \A j \in (k + 1)..Len(bits) : bits[j] = 1
       IN <<0, SubSeq(bits, 1, p - 1) \o <<1>> \o Zeros(Len(bits) - p)>>

\* the double nearest to the exact value given by digits (leading one first,
\* the first digit worth 2^exp) plus, when sticky, something below the last
\* digit
RoundToDouble(digits, exp, sticky) ==
  IF Len(digits) <= SigBits
  THEN [sig |-> digits \o Zeros(SigBits - Len(digits)), exp |-> exp]
  ELSE LET kept == SubSeq(digits, 1, SigBits)
           guard == digits[SigBits + 1]
           rest == sticky \/ \E k \in (SigBits + 2)..Len(digits) : digits[k] = 1
           up == guard = 1 /\ (rest \/ kept[SigBits] = 1)
           inc == Increment(kept)
       IN IF ~up THEN [sig |-> kept, exp |-> exp]
          ELSE IF inc[1] = 1
               THEN [sig |-> <<1>> \o Zeros(SigBits - 1), exp |-> exp + 1]
               ELSE [sig |-> inc[2], exp |-> exp]

\* the same for digits that may start with zeros, the first worth 2^topExp
Normalize(digits, topExp, sticky) ==
  IF \A k \in 1..Len(digits) : digits[k] = 0 THEN Zero
  ELSE LET first == CHOOSE k \in 1..Len(digits) :
                      digits[k] = 1 /\ \A j \in 1..(k - 1) : digits[j] = 0
       IN RoundToDouble(SubSeq(digits, first, Len(digits)), topExp - (first - 1), sticky)

\* the double of an integer n in 0..2047
FromInt(n) == Normalize(ToDigits(<<n>>), LimbBits - 1, FALSE)

\* long division of the limbs by d: <<quotient limbs, remainder>>
RECURSIVE LongDivide(_, _, _, _, _)
LongDivide(limbs, d, j, r, quotient) ==
  IF j > Len(limbs) THEN <<quotient, r>>
  ELSE LET cur == r * LimbBase + limbs[j]
       IN LongDivide(limbs, d, j + 1, cur % d, Append(quotient, cur \div d))

\* x / d for a double x and an integer d in 1..1024
Divide(x, d) ==
  IF x.sig = <<>> THEN Zero
  ELSE LET padded == x.sig \o Zeros(QuotientBits - SigBits)
           res == LongDivide(ToLimbs(padded), d, 1, 0, <<>>)
       IN Normalize(ToDigits(res[1]), x.exp, res[2] # 0)

\* limbs * n from the last limb on: <<carry, product limbs>>
RECURSIVE LongMultiply(_, _, _, _, _)
LongMultiply(limbs, n, j, carry, product) ==
  IF j = 0 THEN <<carry, product>>
  ELSE LET cur == limbs[j] * n + carry
       IN LongMultiply(limbs, n, j - 1, cur \div LimbBase, <<cur % LimbBase>> \o product)

\* x * n for a double x and an integer n in 0..1024
Multiply(x, n) ==
  IF x.sig = <<>> \/ n <= 0 THEN Zero
  ELSE LET padded == Zeros(FactorBits - SigBits) \o x.sig
           limbs == ToLimbs(padded)
           res == LongMultiply(limbs, n, Len(limbs), 0, <<>>)
       IN Normalize(ToDigits(<<res[1]>> \o res[2]),
                    x.exp + (FactorBits - SigBits) + LimbBits, FALSE)

\* Math.floor of a double below 2048
Floor(x) ==
  IF x.sig = <<>> \/ x.exp < 0 THEN 0
  ELSE IntOfLimb(Zeros(LimbBits - (x.exp + 1)) \o SubSeq(x.sig, 1, x.exp + 1))

\* Math.round of a double below 2048: the nearest integer, halves upwards
Round(x) ==
  IF x.sig = <<>> \/ x.exp < -1 THEN 0
  ELSE Floor(x) + x.sig[x.exp + 2]

(* --------------------------- text material ---------------------------- *)
\* an implicit first chapter under another title
BeginningUntitled == << <<"U","n","t","i","t","l","e","d">> >>

\* A word is a sequence of characters, a line a sequence of words.
Beginning == << <<"B","e","g","i","n","n","i","n","g">> >>
HeadingLine == << <<"C","h","a","p","t","e","r">>, <<"1">> >>
ShortLine == << <<"G","o",".">> >>
LongLine ==
  << <<"a">>, <<"b">>, <<"c">>, <<"d">>, <<"e">>, <<"f">>, <<"g">>, <<"h">>,
     <<"i">>, <<"j">>, <<"k",".">> >>

\* the entries of structuredText the first pass of tokenizeText hands to the
\* second: the trimmed, non-empty lines with their heading classification
SampleLines ==
  { [text |-> HeadingLine, isChapterTitle |-> TRUE],
    [text |-> ShortLine, isChapterTitle |-> FALSE],
    [text |-> LongLine, isChapterTitle |-> FALSE] }

RECURSIVE SeqsUpTo(_, _)
SeqsUpTo(S, n) ==
  IF n = 0 THEN {<<>>}
  ELSE LET shorter == SeqsUpTo(S, n - 1)
       IN shorter \cup {Append(s, x) : s \in {t \in shorter : Len(t) = n - 1}, x \in S}

StructuredTexts == SeqsUpTo(SampleLines, MaxLines)

(* ---------------------------- tokenizeText ----------------------------- *)
isSentenceEnd(word) == word[Len(word)] \in {".", "!", "?"}

\* tokens numbered after tokenIndex was incremented
LineTokensCountedFirst(line, tokenIndex, chapterIndex, chapterTitle, paragraphIndex) ==
  [k \in 1..Len(line.text) |->
     [text |-> line.text[k],
      isSentenceEnd |-> isSentenceEnd(line.text[k]),
      index |-> tokenIndex + k,
      chapterIndex |-> chapterIndex,
      chapterTitle |-> chapterTitle,
      paragraphIndex |-> paragraphIndex]]

\* the tokens one line contributes, numbered from tokenIndex
LineTokens(line, tokenIndex, chapterIndex, chapterTitle, paragraphIndex) ==
  [k \in 1..Len(line.text) |->
     [text |-> line.text[k],
      isSentenceEnd |-> isSentenceEnd(line.text[k]),
      index |-> tokenIndex + k - 1,
      chapterIndex |-> chapterIndex,
      chapterTitle |-> chapterTitle,
      paragraphIndex |-> paragraphIndex]]

\* (chapter.startIndex / Math.max(1, tokens.length)) * 100
ChapterProgress(startIndex, total) ==
  Multiply(Divide(FromInt(startIndex), Max(1, total)), PercentMax)

\* a chapter closed on the first token of the next one
PreviousChapterOverlapping(title, startIndex, tokenIndex) ==
  [title |-> title,
   startIndex |-> startIndex,
   endIndex |-> tokenIndex,
   progress |-> ChapterProgress(startIndex, tokenIndex)]

\* "Save previous chapter": the chapter pushed when a heading closes it
PreviousChapter(title, startIndex, tokenIndex) ==
  [title |-> title,
   startIndex |-> startIndex,
   endIndex |-> tokenIndex - 1,
   progress |-> ChapterProgress(startIndex, tokenIndex)]

\* a chapter that starts after the words of its heading
ChapterStartAfterHeading(line, tokenIndex, activeChapterStart) ==
  IF line.isChapterTitle THEN tokenIndex + Len(line.text) ELSE activeChapterStart

\* activeChapterStart = tokenIndex at a heading, before its words are pushed
ChapterStart(line, tokenIndex, activeChapterStart) ==
  IF line.isChapterTitle THEN tokenIndex ELSE activeChapterStart

\* a counter that counts the heading lines too
paragraphAfterAnyLine(line, paragraphIndex) == paragraphIndex + 1

\* if (!isChapterTitle) paragraphIndex++
paragraphAfter(line, paragraphIndex) ==
  IF line.isChapterTitle THEN paragraphIndex ELSE paragraphIndex + 1

\* the loop of the second pass; st is the loop state
RECURSIVE SecondPass(_, _)
SecondPass(lines, st) ==
  IF lines = <<>> THEN st
  ELSE
    LET line == Head(lines)
        closing == line.isChapterTitle /\ st.tokenIndex > st.activeChapterStart
        chapters1 ==
          IF closing
          THEN Append(st.chapters,
                 PreviousChapter(st.activeChapterTitle, st.activeChapterStart,
                                 st.tokenIndex))
          ELSE st.chapters
        title1 == IF line.isChapterTitle THEN line.text ELSE st.activeChapterTitle
        start1 == ChapterStart(line, st.tokenIndex, st.activeChapterStart)
        chIdx1 == IF line.isChapterTitle THEN st.currentChapterIndex + 1
                  ELSE st.currentChapterIndex
        newTokens == LineTokens(line, st.tokenIndex, chIdx1, title1, st.paragraphIndex)
    IN SecondPass(Tail(lines),
         [tokens |-> st.tokens \o newTokens,
          chapters |-> chapters1,
          paragraphIndex |-> paragraphAfter(line, st.paragraphIndex),
          tokenIndex |-> st.tokenIndex + Len(newTokens),
          activeChapterStart |-> start1,
          activeChapterTitle |-> title1,
          currentChapterIndex |-> chIdx1])

tokenizeText(structuredText) ==
  LET st == SecondPass(structuredText,
              [tokens |-> <<>>, chapters |-> <<>>, paragraphIndex |-> 0,
               tokenIndex |-> 0, activeChapterStart |-> 0,
               activeChapterTitle |-> Beginning, currentChapterIndex |-> 0])
      total == Len(st.tokens)
      withLast ==
        IF st.tokenIndex > st.activeChapterStart \/ Len(st.chapters) = 0
        THEN Append(st.chapters,
               [title |-> st.activeChapterTitle,
                startIndex |-> st.activeChapterStart,
                endIndex |-> total - 1,
                progress |-> ChapterProgress(st.activeChapterStart, total)])
        ELSE st.chapters
  IN [tokens |-> st.tokens,
      chapters |-> [k \in 1..Len(withLast) |->
                      [withLast[k] EXCEPT
                         !.progress = ChapterProgress(withLast[k].startIndex, total)]]]

(* ------------------------------ strings ------------------------------- *)
\* a string is the sequence of its characters; \s of the regular expressions
Whitespace == {" ", "\t", "\n", "\r"}
LineFeed == "\n"

UpperCase == <<"A","B","C","D","E","F","G","H","I","J","K","L","M",
               "N","O","P","Q","R","S","T","U","V","W","X","Y","Z">>
LowerCase == <<"a","b","c","d","e","f","g","h","i","j","k","l","m",
               "n","o","p","q","r","s","t","u","v","w","x","y","z">>

\* one character under the /i flag
FoldCase(c) ==
  IF \E k \in 1..Len(UpperCase) : UpperCase[k] = c
  THEN LowerCase[CHOOSE k \in 1..Len(UpperCase) : UpperCase[k] = c]
  ELSE c

\* String.prototype.split with a one-character separator
RECURSIVE split(_, _)
split(s, sep) ==
  IF \E k \in 1..Len(s) : s[k] = sep
  THEN LET k == CHOOSE j \in 1..Len(s) :
                  s[j] = sep /\ \A i \in 1..(j - 1) : s[i] # sep
       IN <<SubSeq(s, 1, k - 1)>> \o split(SubSeq(s, k + 1, Len(s)), sep)
  ELSE <<s>>

\* Array.prototype.join
RECURSIVE join(_, _)
join(parts, sep) ==
  IF parts = <<>> THEN <<>>
  ELSE IF Len(parts) = 1 THEN parts[1]
  ELSE parts[1] \o sep \o join(Tail(parts), sep)

\* String.prototype.trim
trim(s) ==
  IF \A k \in 1..Len(s) : s[k] \in Whitespace THEN <<>>
  ELSE LET first == CHOOSE j \in 1..Len(s) :
                      s[j] \notin Whitespace /\ \A i \in 1..(j - 1) : s[i] \in Whitespace
           last == CHOOSE j \in 1..Len(s) :
                     s[j] \notin Whitespace /\ \A i \in (j + 1)..Len(s) : s[i] \in Whitespace
       IN SubSeq(s, first, last)

\* text.split(/\s+/).filter(word => word.length > 0)
RECURSIVE words(_)
words(s) ==
  LET t == trim(s)
  IN IF t = <<>> THEN <<>>
     ELSE IF \E k \in 1..Len(t) : t[k] \in Whitespace
     THEN LET k == CHOOSE j \in 1..Len(t) :
                     t[j] \in Whitespace /\ \A i \in 1..(j - 1) : t[i] \notin Whitespace
          IN <<SubSeq(t, 1, k - 1)>> \o words(SubSeq(t, k + 1, Len(t)))
     ELSE <<t>>

\* the length of the leading run of characters of s that satisfy the class
LeadingRun(s, class) ==
  IF \A k \in 1..Len(s) : FoldCase(s[k]) \in class THEN Len(s)
  ELSE (CHOOSE j \in 1..Len(s) :
          FoldCase(s[j]) \notin class /\ \A i \in 1..(j - 1) : FoldCase(s[i]) \in class) - 1

(* ------------------------ tokenizeText, first pass --------------------- *)
HeadingKeywords ==
  { <<"c", "h", "a", "p", "t", "e", "r">>,
    <<"p", "a", "r", "t">>,
    <<"s", "e", "c", "t", "i", "o", "n">>,
    <<"p", "r", "o", "l", "o", "g", "u", "e">>,
    <<"e", "p", "i", "l", "o", "g", "u", "e">>,
    <<"i", "n", "t", "r", "o", "d", "u", "c", "t", "i", "o", "n">>,
    <<"c", "o", "n", "c", "l", "u", "s", "i", "o", "n">> }
RomanLetters == {"i", "v", "x", "l", "c", "d", "m"}
Digits == {"0", "1", "2", "3", "4", "5", "6", "7", "8", "9"}
Separators == Whitespace \cup {".", ":"}
HeadingCeiling == 30

\* /^(Chapter|Part|...)\s+/i
StartsWithKeyword(s) ==
  \E kw \in HeadingKeywords :
    /\ Len(s) > Len(kw)
    /\ \A k \in 1..Len(kw) : FoldCase(s[k]) = kw[k]
    /\ s[Len(kw) + 1] \in Whitespace

\* /^[IVXLCDM]+[\s.:]/i and /^\d+[\s.:]/i: a run of the class and a separator
StartsWithRun(s, class) ==
  LET n == LeadingRun(s, class)
  IN n >= 1 /\ n < Len(s) /\ s[n + 1] \in Separators

\* a ceiling that lets a line of exactly 30 characters through
isChapterTitleUpToCeiling(trimmedLine) ==
  \/ StartsWithKeyword(trimmedLine)
  \/ StartsWithRun(trimmedLine, RomanLetters) /\ Len(trimmedLine) <= HeadingCeiling
  \/ StartsWithRun(trimmedLine, Digits) /\ Len(trimmedLine) <= HeadingCeiling

isChapterTitle(trimmedLine) ==
  \/ StartsWithKeyword(trimmedLine)
  \/ StartsWithRun(trimmedLine, RomanLetters) /\ Len(trimmedLine) < HeadingCeiling
  \/ StartsWithRun(trimmedLine, Digits) /\ Len(trimmedLine) < HeadingCeiling

\* the first pass: the trimmed non-empty lines with their classification;
\* each line is kept as the words the second pass splits it into
RECURSIVE Classified(_)
Classified(lines) ==
  IF lines = <<>> THEN <<>>
  ELSE LET trimmedLine == trim(Head(lines))
       IN (IF trimmedLine = <<>> THEN <<>>
           ELSE <<[text |-> words(trimmedLine),
                   isChapterTitle |-> isChapterTitle(trimmedLine)]>>)
          \o Classified(Tail(lines))

structuredText(text) == Classified(split(text, LineFeed))

\* tokenizeText applied to a text
Segmented(text) == tokenizeText(structuredText(text))

\* a percentage that reports an empty document as read to the end
getProgressPercentageOfNothing(idx, totalTokens) ==
  IF totalTokens = 0 THEN PercentMax
  ELSE Round(Multiply(Divide(FromInt(idx), totalTokens), PercentMax))

\* Math.round((currentIndex / totalTokens) * 100)
getProgressPercentage(idx, totalTokens) ==
  IF totalTokens = 0 THEN 0
  ELSE Round(Multiply(Divide(FromInt(idx), totalTokens), PercentMax))

\* the value the progress slider hands to onValueChange at position k
SliderPercent(k) == Divide(FromInt(k), StepsPerPercent)

\* handleJumpTo: Math.floor((percentage / 100) * tokens.length)
newIndex(percentage, len) == Floor(Multiply(Divide(percentage, PercentMax), len))

\* handleJumpTo: the index handed to setCurrentIndex
JumpIndex(percentage, len) == Min(len - 1, Max(0, newIndex(percentage, len)))

\* both functions tabulated for a document of len tokens
ProgressTable(len) == [k \in 1..(len + 1) |-> getProgressPercentage(k - 1, len)]
JumpTable(len) == [k \in SeekInputs |-> JumpIndex(SliderPercent(k), len)]

(* ------------------------------ parseEpub ------------------------------ *)
\* An archive is what JSZip.loadAsync makes of the file: it is readable or
\* not, and its files map a path to an entry. An entry is empty, or holds the
\* document the DOMParser makes of it: container.xml with the full-path of
\* its rootfile, the package with its item and itemref elements, or a
\* content document with its element tree.
NoEntry == [kind |-> "none"]
EmptyEntry == [kind |-> "empty"]

\* zip.file(path)?.async("string"), and whether the string is truthy
ZipFile(zip, path) == IF path \in DOMAIN zip.files THEN zip.files[path] ELSE NoEntry
HasContent(entry) == entry.kind \notin {"none", "empty"}

ContainerPath == <<"M", "E", "T", "A", "-", "I", "N", "F", "/", "c", "o", "n", "t", "a", "i", "n", "e", "r", ".", "x", "m", "l">>

\* a catch clause that throws an Error without message
FailureMessageLost(cause) == ""

\* the Error thrown for each failure, as wrapped by the catch clause
FailureMessage(cause) ==
  CASE cause = "archive" -> "Failed to parse EPUB: Corrupted zip: can't find end of central directory"
    [] cause = "container" -> "Failed to parse EPUB: Invalid EPUB: Missing container.xml"
    [] cause = "rootfile" -> "Failed to parse EPUB: Invalid EPUB: Missing OPF file reference"
    [] cause = "package" -> "Failed to parse EPUB: Invalid EPUB: OPF file not found"

\* String.prototype.lastIndexOf, counted from 0, -1 when absent
lastIndexOf(s, c) ==
  IF \E k \in 1..Len(s) : s[k] = c
  THEN (CHOOSE j \in 1..Len(s) : s[j] = c /\ \A i \in (j + 1)..Len(s) : s[i] # c) - 1
  ELSE -1

\* opfPath.substring(0, opfPath.lastIndexOf("/") + 1)
opfBasePath(opfPath) == SubSeq(opfPath, 1, lastIndexOf(opfPath, "/") + 1)

\* a map that answers an unknown id with the href of the first item
idToHrefOrFirst(manifestItems, id) ==
  LET set == {k \in 1..Len(manifestItems) :
                /\ manifestItems[k].id # "" /\ manifestItems[k].href # <<>>
                /\ manifestItems[k].id = id}
  IN IF set = {} THEN manifestItems[1].href
     ELSE manifestItems[CHOOSE k \in set : \A j \in set : j <= k].href

\* the Map filled from the item elements: the href of the last item with the
\* id, among the items that have both attributes; "" when there is none
idToHref(manifestItems, id) ==
  LET set == {k \in 1..Len(manifestItems) :
                /\ manifestItems[k].id # "" /\ manifestItems[k].href # <<>>
                /\ manifestItems[k].id = id}
  IN IF set = {} THEN <<>>
     ELSE manifestItems[CHOOSE k \in set : \A j \in set : j <= k].href

SkippedTags == {"script", "style"}
\* no element counts as a block
blockElementsNone == {}

\* Add spacing for block elements
blockElements == {"p", "div", "h1", "h2", "h3", "h4", "h5", "h6", "li", "br"}
TextNode == 3
ElementNode == 1

RECURSIVE extractTextFromNode(_)
extractTextFromNode(node) ==
  IF node.nodeType = TextNode THEN node.nodeValue
  ELSE IF node.nodeType = ElementNode
  THEN IF node.tagName \in SkippedTags THEN <<>>
       ELSE LET inner == join([k \in 1..Len(node.childNodes) |->
                                 extractTextFromNode(node.childNodes[k])], <<>>)
            IN IF node.tagName \in blockElements
               THEN <<LineFeed>> \o inner \o <<LineFeed>>
               ELSE inner
  ELSE <<>>

\* the content document a spine entry resolves to, or NoEntry
SpineContent(zip, opfPath, manifestItems, idref) ==
  LET href == idToHref(manifestItems, idref)
  IN IF idref # "" /\ href # <<>>
     THEN ZipFile(zip, opfBasePath(opfPath) \o href)
     ELSE NoEntry

\* a loop body that puts the text of an entry in front of what it has
appendTextInFront(textBefore, textContent) == textContent \o <<" ">> \o textBefore

\* fullText += textContent + " "
appendText(textBefore, textContent) == textBefore \o textContent \o <<" ">>

\* the loop over the itemref elements
RECURSIVE fullText(_, _, _, _)
fullText(zip, opfPath, manifestItems, spineItems) ==
  IF spineItems = <<>> THEN <<>>
  ELSE LET n == Len(spineItems)
           textBefore == fullText(zip, opfPath, manifestItems, SubSeq(spineItems, 1, n - 1))
           content == SpineContent(zip, opfPath, manifestItems, spineItems[n])
       IN IF HasContent(content)
          THEN appendText(textBefore, extractTextFromNode(content.documentElement))
          ELSE textBefore

Failed(cause) == [ok |-> FALSE, text |-> <<>>, message |-> FailureMessage(cause)]

\* parseEpub on the archive of the file: the text, or the Error thrown
ParsedEpub(zip) ==
  IF ~zip.readable THEN Failed("archive")
  ELSE LET containerXml == ZipFile(zip, ContainerPath)
       IN IF ~HasContent(containerXml) THEN Failed("container")
          ELSE LET opfPath == containerXml.fullPath
               IN IF opfPath = <<>> THEN Failed("rootfile")
                  ELSE LET opfContent == ZipFile(zip, opfPath)
                       IN IF ~HasContent(opfContent) THEN Failed("package")
                          ELSE [ok |-> TRUE,
                                text |-> trim(fullText(zip, opfPath, opfContent.items,
                                                       opfContent.itemrefs)),
                                message |-> ""]

(* --------------------------- sample archives --------------------------- *)
Text(value) == [nodeType |-> TextNode, nodeValue |-> value]
Element(tag, children) == [nodeType |-> ElementNode, tagName |-> tag, childNodes |-> children]
Html(body) == Element("html", <<Element("body", body)>>)

PackagePath == <<"O", "/", "p", ".", "o", "p", "f">>
HrefA == <<"a", ".", "x">>
HrefB == <<"b", ".", "x">>
HrefC == <<"c", ".", "x">>
HrefD == <<"d", ".", "x">>

\* three content documents: <p>One two.</p>, <p>Three four!</p>, and a body
\* without block elements, "Five six" followed by a script
ContentA == Html(<<Element("p", <<Text(<<"O", "n", "e", " ", "t", "w", "o", ".">>)>>)>>)
ContentB == Html(<<Element("p", <<Text(<<"T", "h", "r", "e", "e", " ", "f", "o", "u", "r", "!">>)>>)>>)
ContentC == Html(<<Text(<<"F", "i", "v", "e", " ", "s", "i", "x">>), Element("script", <<Text(<<"v", "a", "r", " ", "x", ";">>)>>)>>)

Content(documentElement) == [kind |-> "content", documentElement |-> documentElement]
Container(fullPath) == [kind |-> "container", fullPath |-> fullPath]
Package(items, itemrefs) == [kind |-> "package", items |-> items, itemrefs |-> itemrefs]
Item(id, href) == [id |-> id, href |-> href]

\* the manifest in two orders; d points to a file the archive lacks, e has
\* no href
ManifestItems ==
  << Item("a", HrefA), Item("b", HrefB), Item("c", HrefC), Item("d", HrefD),
     Item("e", <<>>) >>
Reversed(s) == [k \in 1..Len(s) |-> s[Len(s) + 1 - k]]
Manifests == {ManifestItems, Reversed(ManifestItems)}

\* the idref attributes tried: resolved ones, d and e, an id the manifest
\* lacks, and an itemref without idref
Idrefs == {"a", "b", "c", "d", "e", "z", ""}

ContentFiles ==
  (opfBasePath(PackagePath) \o HrefA) :> Content(ContentA)
    @@ (opfBasePath(PackagePath) \o HrefB) :> Content(ContentB)
    @@ (opfBasePath(PackagePath) \o HrefC) :> Content(ContentC)

Archive(items, itemrefs) ==
  [readable |-> TRUE,
   files |-> ContainerPath :> Container(PackagePath)
               @@ PackagePath :> Package(items, itemrefs)
               @@ ContentFiles]

GoodArchives ==
  {Archive(items, itemrefs) : items \in Manifests, itemrefs \in SeqsUpTo(Idrefs, MaxSpine)}

\* archives that cannot be opened or resolved: unreadable, without
\* container.xml, with an empty one, without full-path, without the package
\* file, with an empty one
BrokenArchives ==
  { [readable |-> FALSE, files |-> ContentFiles],
    [readable |-> TRUE, files |-> PackagePath :> Package(ManifestItems, <<"a">>) @@ ContentFiles],
    [readable |-> TRUE, files |-> ContainerPath :> EmptyEntry @@ ContentFiles],
    [readable |-> TRUE, files |-> ContainerPath :> Container(<<>>) @@ ContentFiles],
    [readable |-> TRUE, files |-> ContainerPath :> Container(PackagePath) @@ ContentFiles],
    [readable |-> TRUE,
     files |-> ContainerPath :> Container(PackagePath) @@ PackagePath :> EmptyEntry
                 @@ ContentFiles] }

(* ------------------------------ files --------------------------------- *)
toLowerCase(s) ==
  [k \in 1..Len(s) |->
     CASE s[k] = "E" -> "e" [] s[k] = "P" -> "p" [] s[k] = "U" -> "u"
       [] s[k] = "B" -> "b" [] s[k] = "A" -> "a" [] s[k] = "T" -> "t"
       [] s[k] = "X" -> "x" [] OTHER -> s[k]]

\* a test that does not ask for the first character of the suffix
endsWithTail(s, suffix) ==
  /\ Len(s) >= Len(suffix) - 1
  /\ SubSeq(s, Len(s) - Len(suffix) + 2, Len(s)) = Tail(suffix)

\* String.prototype.endsWith
endsWith(s, suffix) ==
  /\ Len(s) >= Len(suffix)
  /\ SubSeq(s, Len(s) - Len(suffix) + 1, Len(s)) = suffix

DotEpub == <<".", "e", "p", "u", "b">>

FileNames ==
  { <<"a", ".", "e", "p", "u", "b">>, <<"A", ".", "E", "P", "U", "B">>,
    <<"a", ".", "t", "x", "t">>, <<"e", "p", "u", "b">> }

\* the Errors parseEpub throws for the archives it cannot open or resolve
ParseFailures == {ParsedEpub(zip).message : zip \in BrokenArchives}

\* what parseEpub makes of the archive: a thrown Error or the extracted lines
ArchiveOutcomes ==
  [ok : {TRUE}, lines : StructuredTexts, message : {""}]
    \cup [ok : {FALSE}, lines : {<<>>}, message : ParseFailures]

Files == [name : FileNames, archive : ArchiveOutcomes]
NoFile == [name |-> <<>>, archive |-> [ok |-> FALSE, lines |-> <<>>, message |-> ""]]

parseEpub(file) == file.archive

NoEpub == [isNull |-> TRUE, text |-> <<>>]

\* no pure function is being applied; a call that has not returned
NoCall == [fn |-> "none", a |-> 0, b |-> 0]
NoValue == [done |-> FALSE, value |-> 0]
Returned(v) == [done |-> TRUE, value |-> v]

(* ------------------------------ state --------------------------------- *)
VARIABLES
  \* Index page
  indexMounted, appState, epubData, tokens, chapters, error, progress,
  inflight,
  \* RSVPPlayer instance
  alive, currentIndex, isPlaying, wpm, mounted, intervalRef,
  queue, pendingEffects, cleanupPending, raised,
  \* browser timers created by the player and not yet fired or cleared
  timers,
  \* history: the kind of the last handler invoked ("play", "pause", "seek"
  \* for the repositioning ones, "newBook") and whether the player was playing
  \* when it was invoked
  lastOp, opPlaying,
  \* getProgressPercentage and the index of handleJumpTo tabulated for the
  \* loaded document (the values are computed once, when it is loaded)
  progressOf, jumpIndexOf,
  \* a pure function applied on its own: the call and what it returned
  call, ret

indexVars == <<indexMounted, appState, epubData, tokens, chapters, error, progress, inflight>>
playerVars == <<alive, currentIndex, isPlaying, wpm, mounted, intervalRef,
                queue, pendingEffects, cleanupPending, raised>>
histVars == <<lastOp, opPlaying>>
tableVars == <<progressOf, jumpIndexOf>>
callVars == <<call, ret>>
vars == <<indexVars, playerVars, timers, histVars, tableVars, callVars>>

tokenCount == Len(tokens)

(* --------------------------- state updates ---------------------------- *)
Upd(type, n, b) == [type |-> type, n |-> n, b |-> b]
SetIsPlaying(b) == Upd("isPlaying", 0, b)
SetCurrentIndex(n) == Upd("currentIndex", n, FALSE)
SetWpm(n) == Upd("wpm", n, FALSE)
SetMounted(b) == Upd("mounted", 0, b)
\* setCurrentIndex(prev => ...) issued by the timer callback; eager tells
\* whether React evaluated the updater when it was dispatched
Advance(eager) == Upd("advance", 0, eager)

\* an updater that walks past the last token
AdvanceIndexPastEnd(prev, len) == prev + 1

\* the updater of the timer callback: the next cursor
AdvanceIndex(prev, len) ==
  LET nextIndex == prev + 1
  IN IF nextIndex >= len THEN prev ELSE nextIndex

\* the updater of the timer callback: does it call setIsPlaying(false)
AdvanceStops(prev, len) == prev + 1 >= len

RECURSIVE ReduceIndex(_, _, _)
ReduceIndex(q, prev, len) ==
  IF q = <<>> THEN prev
  ELSE LET u == Head(q)
           nxt == CASE u.type = "currentIndex" -> u.n
                    [] u.type = "advance" -> AdvanceIndex(prev, len)
                    [] OTHER -> prev
       IN ReduceIndex(Tail(q), nxt, len)

\* isPlaying after the queue: explicit updates in order; the setIsPlaying(false)
\* of an eagerly evaluated updater takes its place in the queue, the one of an
\* updater evaluated during the render is applied after the queue
RECURSIVE ReducePlaying(_, _, _, _, _)
ReducePlaying(q, prevIdx, playing, len, stopLast) ==
  IF q = <<>> THEN (IF stopLast THEN FALSE ELSE playing)
  ELSE LET u == Head(q)
           stops == u.type = "advance" /\ AdvanceStops(prevIdx, len)
           idx1 == ReduceIndex(<<u>>, prevIdx, len)
           playing1 == CASE u.type = "isPlaying" -> u.b
                         [] stops /\ u.b -> FALSE
                         [] OTHER -> playing
       IN ReducePlaying(Tail(q), idx1, playing1, len, stopLast \/ (stops /\ ~u.b))

RECURSIVE ReduceNum(_, _, _)
ReduceNum(q, type, prev) ==
  IF q = <<>> THEN prev
  ELSE ReduceNum(Tail(q), type, IF Head(q).type = type THEN Head(q).n ELSE prev)

RECURSIVE ReduceBool(_, _, _)
ReduceBool(q, type, prev) ==
  IF q = <<>> THEN prev
  ELSE ReduceBool(Tail(q), type, IF Head(q).type = type THEN Head(q).b ELSE prev)

\* the cursor the pending updates lead to
LogicalIndex == ReduceIndex(queue, currentIndex, tokenCount)

(* ------------------------------ timers -------------------------------- *)
\* stub: 1.0 for every token (in tenths)
getPauseMultiplier(text) == 10

\* baseInterval * multiplier in milliseconds, as a fraction
getInterval(token, w) == <<MsPerMinute * getPauseMultiplier(token.text), w * 10>>

\* a handle no pending timer and no ref holds
FreshHandle(ts, ref) ==
  CHOOSE h \in 1..(Cardinality(ts) + 2) :
    /\ h # ref
    /\ \A t \in ts : t.id # h

clearTimeout(ts, handle) == {t \in ts : t.id # handle}

\* a cleanup that forgets clearTimeout
EffectCleanupLeaky(ts, ref) == ts

\* the cleanup returned by the playback effect
EffectCleanup(ts, ref) == IF ref # 0 THEN clearTimeout(ts, ref) ELSE ts

\* guard of the playback effect
ShouldSchedule(playing, idx, len, isMounted) == playing /\ idx < len /\ isMounted

\* tokens[idx] is an element of the array
IsToken(idx, len) == idx \in 0..(len - 1)

(* ------------------------------- Init --------------------------------- *)
\* the page before anything has run
PageInit ==
  /\ indexMounted = FALSE
  /\ appState = "upload"
  /\ epubData = NoEpub
  /\ tokens = <<>>
  /\ chapters = <<>>
  /\ error = ""
  /\ progress = 0
  /\ inflight = NoFile
  /\ alive = FALSE
  /\ currentIndex = 0
  /\ isPlaying = FALSE
  /\ wpm = DefaultWpm
  /\ mounted = FALSE
  /\ intervalRef = 0
  /\ queue = <<>>
  /\ pendingEffects = {}
  /\ cleanupPending = FALSE
  /\ raised = FALSE
  /\ timers = {}
  /\ lastOp = "none"
  /\ opPlaying = FALSE
  /\ progressOf = ProgressTable(0)
  /\ jumpIndexOf = JumpTable(0)

Init ==
  /\ PageInit
  /\ call = NoCall
  /\ ret = NoValue

(* ------------------------------ Index --------------------------------- *)
\* useEffect(() => setMounted(true), []) of the page
IndexMount ==
  /\ ~indexMounted
  /\ indexMounted' = TRUE
  /\ UNCHANGED <<appState, epubData, tokens, chapters, error, progress, inflight>>
  /\ UNCHANGED <<playerVars, timers, histVars, tableVars, callVars>>

\* handleFileUpload up to the await
handleFileUpload(file) ==
  /\ indexMounted /\ appState = "upload" /\ ~cleanupPending /\ ~raised
  /\ IF ~endsWith(toLowerCase(file.name), DotEpub)
     THEN /\ error' = "Please select a valid EPUB file"
          /\ appState' = "error"
          /\ UNCHANGED inflight
     ELSE /\ appState' = "parsing"
          /\ error' = ""
          /\ inflight' = file
  /\ UNCHANGED <<indexMounted, epubData, tokens, chapters, progress>>
  /\ UNCHANGED <<playerVars, timers, histVars, tableVars, callVars>>

\* a player that is created at the top speed of the slider
MountPlayerAtTopSpeed ==
  /\ alive' = TRUE
  /\ currentIndex' = 0
  /\ isPlaying' = FALSE
  /\ wpm' = SliderMax
  /\ mounted' = FALSE
  /\ intervalRef' = 0
  /\ queue' = <<>>
  /\ pendingEffects' = {"mount", "progress", "playback"}
  /\ UNCHANGED <<cleanupPending, raised>>

\* a new RSVPPlayer: the useState initial values, nothing run yet
MountPlayer ==
  /\ alive' = TRUE
  /\ currentIndex' = 0
  /\ isPlaying' = FALSE
  /\ wpm' = DefaultWpm
  /\ mounted' = FALSE
  /\ intervalRef' = 0
  /\ queue' = <<>>
  /\ pendingEffects' = {"mount", "progress", "playback"}
  /\ UNCHANGED <<cleanupPending, raised>>

\* handleFileUpload after the await: parseEpub resolved or threw
ParseDone ==
  /\ appState = "parsing" /\ ~raised
  /\ LET parsed == parseEpub(inflight)
         result == tokenizeText(parsed.lines)
     IN IF parsed.ok
        THEN /\ epubData' = [isNull |-> FALSE, text |-> parsed.lines]
             /\ tokens' = result.tokens
             /\ chapters' = result.chapters
             /\ appState' = "ready"
             /\ MountPlayer
             /\ progressOf' = ProgressTable(Len(result.tokens))
             /\ jumpIndexOf' = JumpTable(Len(result.tokens))
             /\ UNCHANGED error
        ELSE /\ error' = parsed.message
             /\ appState' = "error"
             /\ UNCHANGED <<epubData, tokens, chapters, playerVars, tableVars>>
  /\ inflight' = NoFile
  /\ UNCHANGED <<indexMounted, progress, timers, histVars, callVars>>

\* a restart that keeps the book that was loaded
handleRestartKeepingBook ==
  /\ indexMounted /\ appState \in {"ready", "error"} /\ ~raised
  /\ pendingEffects = {}
  /\ appState' = "upload"
  /\ error' = ""
  /\ progress' = 0
  /\ alive' = FALSE
  /\ cleanupPending' = alive
  /\ currentIndex' = 0 /\ isPlaying' = FALSE /\ wpm' = DefaultWpm /\ mounted' = FALSE
  /\ queue' = <<>>
  /\ lastOp' = "newBook"
  /\ opPlaying' = (alive /\ isPlaying)
  /\ UNCHANGED <<indexMounted, epubData, tokens, chapters, inflight, intervalRef,
                 pendingEffects, raised, timers, tableVars, callVars>>

\* handleRestart ("New Book" / "Try Again"); the page stops rendering the
\* player, whose effect cleanup is left to run
handleRestart ==
  /\ indexMounted /\ appState \in {"ready", "error"} /\ ~raised
  /\ pendingEffects = {}
  /\ appState' = "upload"
  /\ epubData' = NoEpub
  /\ tokens' = <<>>
  /\ chapters' = <<>>
  /\ error' = ""
  /\ progress' = 0
  /\ alive' = FALSE
  /\ cleanupPending' = alive
  /\ currentIndex' = 0 /\ isPlaying' = FALSE /\ wpm' = DefaultWpm /\ mounted' = FALSE
  /\ queue' = <<>>
  /\ lastOp' = "newBook"
  /\ opPlaying' = (alive /\ isPlaying)
  /\ progressOf' = ProgressTable(0)
  /\ jumpIndexOf' = JumpTable(0)
  /\ UNCHANGED <<indexMounted, inflight, intervalRef, pendingEffects, raised, timers,
                 callVars>>

\* the playback effect's cleanup, run for the unmounted player
UnmountCleanup ==
  /\ cleanupPending
  /\ timers' = EffectCleanup(timers, intervalRef)
  /\ intervalRef' = 0
  /\ cleanupPending' = FALSE
  /\ UNCHANGED <<indexVars, alive, currentIndex, isPlaying, wpm, mounted, queue,
                 pendingEffects, raised, histVars, tableVars, callVars>>

(* ------------------------ render and effects -------------------------- *)
\* the effects whose dependency lists changed between two renders
ChangedEffects(idx1, playing1, wpm1, mounted1) ==
  (IF <<playing1, idx1, wpm1, mounted1>> # <<isPlaying, currentIndex, wpm, mounted>>
   THEN {"playback"} ELSE {})
  \cup (IF idx1 # currentIndex THEN {"progress"} ELSE {})

\* the component function run with the updates q applied to the hooks
Render(q) ==
  LET idx1 == ReduceIndex(q, currentIndex, tokenCount)
      playing1 == ReducePlaying(q, currentIndex, isPlaying, tokenCount, FALSE)
      wpm1 == ReduceNum(q, "wpm", wpm)
      mounted1 == ReduceBool(q, "mounted", mounted)
  IN /\ currentIndex' = idx1
     /\ isPlaying' = playing1
     /\ wpm' = wpm1
     /\ mounted' = mounted1
     /\ pendingEffects' = ChangedEffects(idx1, playing1, wpm1, mounted1)
     /\ queue' = <<>>

\* the passive effects of the last commit: the cleanup of the playback
\* effect first, then the bodies (mount, progress, playback)
CleanedTimers ==
  IF "playback" \in pendingEffects THEN EffectCleanup(timers, intervalRef) ELSE timers

Schedules ==
  /\ "playback" \in pendingEffects
  /\ ShouldSchedule(isPlaying, currentIndex, tokenCount, mounted)

\* const progress = getProgressPercentage(currentIndex, tokens.length)
RenderedProgress == IF tokenCount = 0 THEN 0 ELSE progressOf[currentIndex + 1]

\* getInterval(tokens[currentIndex]) reads .text of undefined: TypeError
EffectRaises == Schedules /\ ~IsToken(currentIndex, tokenCount)

RunEffects ==
  /\ progress' = IF "progress" \in pendingEffects THEN RenderedProgress ELSE progress
  /\ raised' = EffectRaises
  /\ IF Schedules /\ ~EffectRaises
     THEN LET handle == FreshHandle(CleanedTimers, intervalRef)
          IN /\ intervalRef' = handle
             /\ timers' = CleanedTimers \cup
                  {[id |-> handle,
                    interval |-> getInterval(tokens[currentIndex + 1], wpm)]}
     ELSE /\ timers' = CleanedTimers
          /\ UNCHANGED intervalRef

\* React runs the pending passive effects on its own
FlushEffects ==
  /\ alive /\ ~raised
  /\ pendingEffects # {}
  /\ RunEffects
  /\ queue' = IF "mount" \in pendingEffects
              THEN Append(queue, SetMounted(TRUE)) ELSE queue
  /\ pendingEffects' = {}
  /\ UNCHANGED <<indexMounted, appState, epubData, tokens, chapters, error, inflight>>
  /\ UNCHANGED <<alive, currentIndex, isPlaying, wpm, mounted, cleanupPending, histVars>>
  /\ UNCHANGED <<tableVars, callVars>>

\* React renders the updates that a timer or a slider left in the queue; the
\* passive effects of the previous commit have run before
PlayerRender ==
  /\ alive /\ ~raised
  /\ queue # <<>>
  /\ pendingEffects = {}
  /\ Render(queue)
  /\ UNCHANGED <<indexVars, alive, intervalRef, cleanupPending, raised, timers, histVars,
                 tableVars, callVars>>

(* --------------------------- player handlers -------------------------- *)
Invoked(op) ==
  /\ lastOp' = op
  /\ opPlaying' = isPlaying

\* a button: the handler runs with the values of the last render, and React
\* renders before it returns to the browser, after running the passive
\* effects that were still pending
Click(updates) ==
  /\ alive /\ mounted /\ ~raised
  /\ IF pendingEffects # {}
     THEN /\ RunEffects
          /\ IF EffectRaises
             THEN /\ pendingEffects' = {}
                  /\ UNCHANGED <<currentIndex, isPlaying, wpm, mounted, queue>>
             ELSE Render(queue \o updates)
     ELSE /\ Render(queue \o updates)
          /\ UNCHANGED <<progress, raised, timers, intervalRef>>
  /\ UNCHANGED <<indexMounted, appState, epubData, tokens, chapters, error, inflight>>
  /\ UNCHANGED <<alive, cleanupPending, tableVars, callVars>>

\* a slider: the handler enqueues and the render comes later
Slide(updates) ==
  /\ alive /\ mounted /\ ~raised
  /\ Len(queue) + Len(updates) <= MaxQueue
  /\ queue' = queue \o updates
  /\ UNCHANGED <<indexVars, alive, currentIndex, isPlaying, wpm, mounted, intervalRef,
                 pendingEffects, cleanupPending, raised, timers, tableVars, callVars>>

PlayPauseUpdates == <<SetIsPlaying(~isPlaying)>>

handlePlayPause ==
  /\ Click(PlayPauseUpdates)
  /\ Invoked(IF isPlaying THEN "pause" ELSE "play")

\* a reset that forgets setIsPlaying(false)
ResetUpdatesStillPlaying == <<SetCurrentIndex(0)>>

ResetUpdates == <<SetIsPlaying(FALSE), SetCurrentIndex(0)>>

handleReset ==
  /\ Click(ResetUpdates)
  /\ Invoked("seek")

SkipBackwardUpdates ==
  <<SetIsPlaying(FALSE), SetCurrentIndex(Max(0, currentIndex - SkipStep))>>

handleSkipBackward ==
  /\ Click(SkipBackwardUpdates)
  /\ Invoked("seek")

SkipForwardUpdates ==
  <<SetIsPlaying(FALSE), SetCurrentIndex(Min(tokenCount - 1, currentIndex + SkipStep))>>

handleSkipForward ==
  /\ Click(SkipForwardUpdates)
  /\ Invoked("seek")

\* percentage is the slider position; the index comes from JumpIndex
JumpToUpdates(percentage) ==
  <<SetIsPlaying(FALSE), SetCurrentIndex(jumpIndexOf[percentage])>>

handleJumpTo(percentage) ==
  /\ Slide(JumpToUpdates(percentage))
  /\ Invoked("seek")

\* chapters[chapterIndex] exists (chapterIndex counts from 0)
HasChapter(chapterIndex) == chapterIndex \in 0..(Len(chapters) - 1)

JumpToChapterUpdates(chapterIndex) ==
  IF HasChapter(chapterIndex)
  THEN <<SetIsPlaying(FALSE), SetCurrentIndex(chapters[chapterIndex + 1].startIndex)>>
  ELSE <<SetIsPlaying(FALSE)>>

jumpToChapter(chapterIndex) ==
  /\ Click(JumpToChapterUpdates(chapterIndex))
  /\ Invoked("seek")

\* speed slider and presets, disabled while playing
setWpm(value) ==
  /\ ~isPlaying
  /\ value # wpm
  /\ Slide(<<SetWpm(value)>>)
  /\ UNCHANGED histVars

\* the WPM range input of the earlier player, which stays enabled while
\* playing: onChange={(e) => setWpm(Number(e.target.value))}
onChangeWpm(value) ==
  /\ value # wpm
  /\ Click(<<SetWpm(value)>>)
  /\ UNCHANGED histVars

(* ------------------------------ timers -------------------------------- *)
\* a timer fires: its callback enqueues the updater; on a player that is no
\* longer mounted the update is dropped
TimerFire(t) ==
  /\ t \in timers /\ ~raised
  /\ timers' = timers \ {t}
  /\ IF alive
     THEN /\ Len(queue) < MaxQueue
          /\ \E eager \in (IF queue = <<>> THEN BOOLEAN ELSE {FALSE}) :
               queue' = Append(queue, Advance(eager))
     ELSE UNCHANGED queue
  /\ UNCHANGED <<indexVars, alive, currentIndex, isPlaying, wpm, mounted, intervalRef,
                 pendingEffects, cleanupPending, raised, histVars, tableVars, callVars>>

Next ==
  \/ IndexMount
  \/ \E file \in Files : handleFileUpload(file)
  \/ ParseDone
  \/ handleRestart
  \/ UnmountCleanup
  \/ handlePlayPause
  \/ handleReset
  \/ handleSkipBackward
  \/ handleSkipForward
  \/ \E percentage \in SeekInputs : handleJumpTo(percentage)
  \/ \E chapterIndex \in -1..Len(chapters) : jumpToChapter(chapterIndex)
  \/ \E value \in SpeedInputs : setWpm(value)
  \/ \E value \in SpeedInputs : onChangeWpm(value)
  \/ PlayerRender
  \/ FlushEffects
  \/ \E t \in timers : TimerFire(t)

Spec == Init /\ [][Next]_vars

(* ------------------------- playback left alone ------------------------- *)
\* The user acts only on a player that is not playing; once isPlaying is
\* true the only steps are those of React and of the browser's timers.
LiveNext ==
  \/ IndexMount
  \/ ~isPlaying /\ \E file \in Files : handleFileUpload(file)
  \/ ParseDone
  \/ ~isPlaying /\ handleRestart
  \/ UnmountCleanup
  \/ ~isPlaying /\ handlePlayPause
  \/ ~isPlaying /\ handleReset
  \/ ~isPlaying /\ handleSkipBackward
  \/ ~isPlaying /\ handleSkipForward
  \/ ~isPlaying /\ \E percentage \in SeekInputs : handleJumpTo(percentage)
  \/ ~isPlaying /\ \E chapterIndex \in -1..Len(chapters) : jumpToChapter(chapterIndex)
  \/ \E value \in SpeedInputs : setWpm(value)
  \/ ~isPlaying /\ \E value \in SpeedInputs : onChangeWpm(value)
  \/ PlayerRender
  \/ FlushEffects
  \/ \E t \in timers : TimerFire(t)

\* React renders queued updates and runs the passive effects of a commit,
\* and the browser runs the callback of a timer that is due
Fairness ==
  /\ WF_vars(PlayerRender)
  /\ WF_vars(FlushEffects)
  /\ WF_vars(\E t \in timers : TimerFire(t))

LiveSpec == Init /\ [][LiveNext]_vars /\ Fairness

(* ------------------- the pure functions on their own ------------------- *)
\* token texts handed to getPauseMultiplier
SampleWords ==
  << <<"e","n","d",".">>, <<"w","a","i","t",",">>, <<"-","y","e","s">>,
     <<"w","o","r","d">>, <<"(","a",")">>, <<"n","o","w","!">> >>

\* the slider positions that stand for whole percents
WholePercents == {k \in SliderPositions : k % StepsPerPercent = 0}

\* the calls tried: handleJumpTo(a / 10) on b tokens,
\* getProgressPercentage(a, b), getPauseMultiplier(SampleWords[a])
Calls ==
  [fn : {"handleJumpTo"}, a : WholePercents, b : 1..MaxCount]
    \cup {c \in [fn : {"getProgressPercentage"}, a : 0..MaxCount, b : 0..MaxCount] :
            c.a <= c.b \/ c.b = 0}
    \cup [fn : {"getPauseMultiplier"}, a : 1..Len(SampleWords), b : {0}]

CallInit ==
  /\ PageInit
  /\ call \in Calls
  /\ ret = NoValue

Returns(fn, value) ==
  /\ call.fn = fn
  /\ ~ret.done
  /\ ret' = Returned(value)
  /\ UNCHANGED <<indexVars, playerVars, timers, histVars, tableVars, call>>

ApplyJumpTo == Returns("handleJumpTo", JumpIndex(SliderPercent(call.a), call.b))

ApplyProgressPercentage ==
  Returns("getProgressPercentage", getProgressPercentage(call.a, call.b))

ApplyPauseMultiplier ==
  Returns("getPauseMultiplier", getPauseMultiplier(SampleWords[call.a]))

CallNext ==
  \/ ApplyJumpTo
  \/ ApplyProgressPercentage
  \/ ApplyPauseMultiplier

PureSpec == CallInit /\ [][CallNext]_vars

(* -------------------- the segmenter applied to texts -------------------- *)
\* the lines the texts are made of: the four lines of "Chapter 1 / Hello
\* world. / Chapter 2 / Goodbye now.", an empty line and a blank one
SampleTextLines ==
  << <<"C", "h", "a", "p", "t", "e", "r", " ", "1">>,
     <<"H", "e", "l", "l", "o", " ", "w", "o", "r", "l", "d", ".">>,
     <<"C", "h", "a", "p", "t", "e", "r", " ", "2">>,
     <<"G", "o", "o", "d", "b", "y", "e", " ", "n", "o", "w", ".">>,
     <<>>,
     <<" ", "\t">> >>

\* every text of up to MaxTextLines of these lines
SampleTexts ==
  {join([k \in 1..Len(q) |-> SampleTextLines[q[k]]], <<LineFeed>>) :
     q \in SeqsUpTo(1..Len(SampleTextLines), MaxTextLines)}

\* single lines: a first word, what follows it, and letters up to a length
LineStarts ==
  { <<"C", "h", "a", "p", "t", "e", "r">>,
    <<"P", "A", "R", "T">>,
    <<"s", "e", "c", "t", "i", "o", "n">>,
    <<"P", "r", "o", "l", "o", "g", "u", "e">>,
    <<"e", "p", "i", "l", "o", "g", "u", "e">>,
    <<"I", "n", "t", "r", "o", "d", "u", "c", "t", "i", "o", "n">>,
    <<"C", "O", "N", "C", "L", "U", "S", "I", "O", "N">>,
    <<"C", "h", "a", "p", "t", "e", "r", "s">>,
    <<"I", "V">>,
    <<"X", "I", "I">>,
    <<"i", "v">>,
    <<"d", "i", "d">>,
    <<"M", "i", "x">>,
    <<"C", "i", "v", "i", "l">>,
    <<"M", "i", "x", "e", "d">>,
    <<"1", "2">>,
    <<"7">>,
    <<"1", "a">>,
    <<"H", "e", "l", "l", "o">> }
LineFollowers == {<<>>, <<" ">>, <<"\t">>, <<".">>, <<":">>, <<"-">>}
LineMargins == {<<>>, <<" ", " ">>}
Filler(n) == [k \in 1..n |-> "y"]
GeneratedLines ==
  {start \o follower \o Filler(n) :
     start \in LineStarts, follower \in LineFollowers, n \in 0..(HeadingCeiling + 1)}
SingleLines ==
  {margin \o line \o margin :
     margin \in LineMargins,
     line \in {l \in GeneratedLines :
                 Len(l) <= Len(CHOOSE start \in LineStarts :
                                 \A other \in LineStarts : Len(other) <= Len(start)) + 1
                   \/ Len(l) \in (HeadingCeiling - 1)..(HeadingCeiling + 1)}}
    \cup { <<"d", "i", "d", " ", "i", "t", ".">>,
           <<"M", "i", "x", " ", "i", "t", " ", "n", "o", "w", ".">> }

TextCalls == [fn : {"tokenizeText"}, a : SampleTexts \cup SingleLines, b : {0}]

TextInit ==
  /\ PageInit
  /\ call \in TextCalls
  /\ ret = NoValue

ApplyTokenizeText == Returns("tokenizeText", Segmented(call.a))

TextNext == ApplyTokenizeText

TextSpec == TextInit /\ [][TextNext]_vars

(* --------------------- parseEpub applied to archives -------------------- *)
EpubCalls ==
  [fn : {"parseEpub", "loadEpub"}, a : GoodArchives \cup BrokenArchives, b : {0}]

EpubInit ==
  /\ PageInit
  /\ call \in EpubCalls
  /\ ret = NoValue

ApplyParseEpub == Returns("parseEpub", ParsedEpub(call.a))

\* the try block of handleFileUpload: parseEpub, then tokenizeText on its text
Loaded(zip) ==
  LET parsed == ParsedEpub(zip)
      segmented == Segmented(parsed.text)
  IN IF parsed.ok
     THEN [ok |-> TRUE, text |-> parsed.text,
           tokens |-> segmented.tokens, chapters |-> segmented.chapters]
     ELSE [ok |-> FALSE, message |-> parsed.message]

ApplyLoad == Returns("loadEpub", Loaded(call.a))

EpubNext ==
  \/ ApplyParseEpub
  \/ ApplyLoad

EpubSpec == EpubInit /\ [][EpubNext]_vars

TypeOK ==
  /\ appState \in {"upload", "parsing", "ready", "error"}
  /\ isPlaying \in BOOLEAN
  /\ currentIndex \in Int
  /\ Len(queue) <= MaxQueue

(* ------------------------------ claims -------------------------------- *)
\* the player is mounted and nothing is waiting: no update to render, no
\* effect to run
Settled == alive /\ mounted /\ ~raised /\ queue = <<>> /\ pendingEffects = {}

\* the speed the pending updates lead to
LogicalWpm == ReduceNum(queue, "wpm", wpm)

\* this step is a timer callback enqueueing its advancement
TimerAdvances ==
  /\ alive /\ alive'
  /\ Len(queue') = Len(queue) + 1
  /\ queue'[Len(queue')].type = "advance"

\* this step renders the advancement of one timer and nothing else
AdvanceRendered ==
  /\ alive /\ alive' /\ isPlaying
  /\ Len(queue) = 1 /\ queue[1].type = "advance"
  /\ queue' = <<>>
  /\ UNCHANGED <<histVars, timers>>

\* C1: in every reachable state currentIndex is an integer with
\* 0 <= currentIndex <= tokenCount, for every token sequence, the empty one
\* included
C1_IndexInRange == currentIndex \in 0..tokenCount

\* C2: after a repositioning operation invoked while Running, no timer
\* callback moves the cursor: the cursor stays where the operation put it
\* until the next play()
C2_NoStaleAdvance ==
  [][(TimerAdvances /\ lastOp = "seek" /\ opPlaying) => LogicalIndex' = LogicalIndex]_vars

\* C3: once a repositioning operation (reset, skip, seek-to-percent,
\* jumpToChapter) has taken effect, isPlaying is false and no advancement is
\* pending
C3_SeekForcesIdle ==
  (Settled /\ lastOp = "seek") => (~isPlaying /\ timers = {})

C3_Witness == Settled /\ lastOp = "seek" /\ opPlaying /\ tokenCount > 1

\* C4: whenever a timer is scheduled it is the only pending one: every timer
\* scheduled before has been cleared or has fired
C4_OneTimerPending ==
  [][(timers' \ timers) # {} => Cardinality(timers') = 1]_vars

C4_Witness == alive /\ intervalRef = 2 /\ Cardinality(timers) = 1

\* C5: in every settled state isPlaying = true implies exactly one
\* advancement timer is pending, for every token sequence, the empty one
\* included
C5_RunningHasTimer ==
  (Settled /\ isPlaying) => Cardinality(timers) = 1

C7_PlayAtEndRejected ==
  [][(alive /\ alive' /\ lastOp' = "play" /\ ~isPlaying /\ currentIndex >= tokenCount)
       => (~isPlaying' /\ currentIndex' = currentIndex)]_vars

\* C8: no sequence of reset/skip/seek/jump operations followed by play()
\* makes the scheduler fail: computing the delay of tokens[currentIndex]
\* never raises
C8_NeverRaises == ~raised

C10_TeardownCancels ==
  [][/\ (~alive' /\ ~cleanupPending') => timers' = {}
     /\ (~alive /\ timers' # timers) =>
          UNCHANGED <<indexVars, alive, currentIndex, isPlaying, wpm, mounted,
                      queue, pendingEffects, raised>>]_vars

C10_Witness ==
  ~alive /\ ~cleanupPending /\ lastOp = "newBook" /\ opPlaying /\ intervalRef = 0

\* the playing flag the pending updates lead to
LogicalPlaying == ReducePlaying(queue, currentIndex, isPlaying, tokenCount, FALSE)

ExactFloor(k, len) == (k * len) \div (StepsPerPercent * PercentMax)

\* C12: for every p in [0,100] and every tokenCount >= 1, seek-to-percent
\* sets currentIndex to floor(p/100 * tokenCount) clamped into
\* [0, tokenCount - 1]
C12_SeekIsFloor ==
  (call.fn = "handleJumpTo" /\ ret.done) =>
     ret.value = Min(call.b - 1, Max(0, ExactFloor(call.a, call.b)))

\* C13: changing the speed while Running leaves the advancement that is
\* already scheduled alone: as long as the player stays Running on the same
\* token, a pending timer is neither cancelled nor replaced, it can only fire
C13_SpeedKeepsTimer ==
  [][(alive /\ alive' /\ isPlaying /\ isPlaying' /\ currentIndex' = currentIndex
        /\ timers # {})
       => (timers' = timers \/ TimerAdvances)]_vars

ExactPercent(idx, total) == (2 * PercentMax * idx + total) \div (2 * total)

\* C15: the progress reported for a cursor is round(100 * currentIndex /
\* tokenCount), and 0 when tokenCount is 0
C15_ProgressIsRounded ==
  (call.fn = "getProgressPercentage" /\ ret.done) =>
     ret.value = IF call.b = 0 THEN 0 ELSE ExactPercent(call.a, call.b)

\* the part of C15 about the notification: once the effects have settled the
\* value last handed to onProgressChange is the one computed for the cursor
C15_ReportedWhenSettled == Settled => progress = RenderedProgress

\* C16: getProgressPercentage(0, N) is 0, getProgressPercentage(N, N) is 100
\* for N > 0, and getProgressPercentage(i, 0) is 0 for every i
C16_ProgressEndpoints ==
  (call.fn = "getProgressPercentage" /\ ret.done) =>
     /\ call.a = 0 => ret.value = 0
     /\ (call.a = call.b /\ call.b > 0) => ret.value = 100
     /\ call.b = 0 => ret.value = 0

C16_Witness ==
  /\ call.fn = "getProgressPercentage" /\ ret.done
  /\ call.a = call.b /\ call.b > 1 /\ ret.value = 100

\* the multiplier C17 describes, in tenths
SentenceMarks == {".", "!", "?"}
ClauseMarks == {",", ":", ";"}
DashesAndParentheses == {"-", "(", ")"}
ClaimedMultiplier(word) ==
  IF word[Len(word)] \in SentenceMarks THEN 20
  ELSE IF word[Len(word)] \in ClauseMarks THEN 15
  ELSE IF \E k \in 1..Len(word) : word[k] \in DashesAndParentheses THEN 12
  ELSE 10

\* C17: the pause multiplier of a token is 2.0 when it ends in . ! or ?, 1.5
\* when it ends in , : or ;, 1.2 when it contains a dash or a parenthesis, and
\* 1.0 otherwise
C17_PauseMultiplier ==
  (call.fn = "getPauseMultiplier" /\ ret.done) =>
     ret.value = ClaimedMultiplier(SampleWords[call.a])

C18_SeekIdempotent ==
  [][\A p \in SeekInputs :
       (alive /\ lastOp = "seek" /\ LogicalIndex = jumpIndexOf[p] /\ handleJumpTo(p)) =>
          /\ LogicalIndex' = LogicalIndex
          /\ LogicalPlaying' = LogicalPlaying
          /\ LogicalWpm' = LogicalWpm]_vars

\* C19: every player created for a document starts from currentIndex 0, not
\* playing, at 300 wpm, with no timer pending, no update queued and no timer
\* handle kept, whatever the previous player was doing
C19_FreshPlayer ==
  [][(~alive /\ alive') =>
       /\ currentIndex' = 0
       /\ ~isPlaying'
       /\ wpm' = 300
       /\ ~mounted'
       /\ timers' = {}
       /\ queue' = <<>>
       /\ intervalRef' = 0]_vars

\* a second document is ready after New Book was pressed on a playing player
C19_Witness ==
  /\ alive /\ appState = "ready" /\ lastOp = "newBook" /\ opPlaying
  /\ currentIndex = 0 /\ ~isPlaying /\ wpm = DefaultWpm

\* the number of tokens the chapters span
RECURSIVE ChapterWords(_)
ChapterWords(chs) ==
  IF chs = <<>> THEN 0
  ELSE (Head(chs).endIndex - Head(chs).startIndex + 1) + ChapterWords(Tail(chs))

\* C20: the tokens of the segmenter are numbered 0, 1, 2, ... without gaps
\* (tokens[i].index = i), and the number of tokens is the sum over the
\* chapters of endIndex - startIndex + 1
C20_TokensNumbered ==
  /\ \A i \in 0..(Len(tokens) - 1) : tokens[i + 1].index = i
  /\ Len(tokens) = ChapterWords(chapters)

\* a document of two chapters is loaded
C20_Witness ==
  /\ appState = "ready" /\ Len(chapters) >= 2 /\ Len(tokens) > 2
  /\ chapters[2].startIndex > 0

\* the chapter list of a returned segmentation is contiguous
Contiguous(chs, count) ==
  /\ chs # <<>>
  /\ chs[1].startIndex = 0
  /\ \A k \in 1..(Len(chs) - 1) : chs[k].endIndex + 1 = chs[k + 1].startIndex
  /\ chs[Len(chs)].endIndex = count - 1

\* C21: for every text that produces at least one token the chapter list is
\* non-empty, starts at 0, each chapter starts right after the one before it
\* ends, and the last one ends on the last token
C21_ChaptersContiguous ==
  (call.fn = "tokenizeText" /\ ret.done /\ Len(ret.value.tokens) >= 1) =>
     Contiguous(ret.value.chapters, Len(ret.value.tokens))

C21_Witness ==
  /\ call.fn = "tokenizeText" /\ ret.done
  /\ Len(ret.value.chapters) >= 2
  /\ ret.value.chapters[2].startIndex = ret.value.chapters[1].endIndex + 1

\* C22: an empty text, or one made of whitespace and blank lines only, is
\* segmented into an empty token list and an empty chapter list
C22_EmptyText ==
  (call.fn = "tokenizeText" /\ ret.done
     /\ \A k \in 1..Len(call.a) : call.a[k] \in Whitespace) =>
       (ret.value.tokens = <<>> /\ ret.value.chapters = <<>>)

\* the chapters without tokens are those of the texts without tokens
NoTokens == call.fn = "tokenizeText" /\ ret.done /\ ret.value.tokens = <<>>

\* C26: no chapter of the output is empty: startIndex <= endIndex for every
\* chapter, also when the text begins with a heading and when two headings
\* are adjacent
C26_NoEmptyChapter ==
  (call.fn = "tokenizeText" /\ ret.done) =>
     \A k \in 1..Len(ret.value.chapters) :
        ret.value.chapters[k].startIndex <= ret.value.chapters[k].endIndex

\* C26 holds for every text that has a token
C26_NoEmptyChapterWithTokens ==
  (call.fn = "tokenizeText" /\ ret.done /\ ~NoTokens) =>
     \A k \in 1..Len(ret.value.chapters) :
        ret.value.chapters[k].startIndex <= ret.value.chapters[k].endIndex

\* the chapters of the returned list whose range contains the token index
ChaptersOf(idx, chs) ==
  {k \in 1..Len(chs) : chs[k].startIndex <= idx /\ idx <= chs[k].endIndex}

\* C23: the chapterIndex of every token is the position (from 0) in the
\* chapter list of the chapter whose range contains the token, and its
\* chapterTitle is the title of that chapter
C23_TokenChapter ==
  (call.fn = "tokenizeText" /\ ret.done) =>
     \A i \in 1..Len(ret.value.tokens) :
        LET t == ret.value.tokens[i]
        IN \E k \in ChaptersOf(t.index, ret.value.chapters) :
              /\ t.chapterIndex = k - 1
              /\ t.chapterTitle = ret.value.chapters[k].title

\* the title half of C23 on its own
C23_TokenChapterTitle ==
  (call.fn = "tokenizeText" /\ ret.done) =>
     \A i \in 1..Len(ret.value.tokens) :
        LET t == ret.value.tokens[i]
        IN \E k \in ChaptersOf(t.index, ret.value.chapters) :
              t.chapterTitle = ret.value.chapters[k].title

\* the four lines "Chapter 1 / Hello world. / Chapter 2 / Goodbye now."
ExampleText == join(SubSeq(SampleTextLines, 1, 4), <<LineFeed>>)

\* the lines of the text the first pass classifies as headings, and the index
\* of the first token of each line
HeadingStarts(text) ==
  LET st == structuredText(text)
      before(k) == Len(join([j \in 1..(k - 1) |-> st[j].text], <<>>))
  IN {before(k) : k \in {j \in 1..Len(st) : st[j].isChapterTitle}}

\* C24: the words of a heading line are tokens of the chapter the heading
\* opens: every heading's first word is the startIndex of a chapter with the
\* heading as title; the four-line example gives exactly 2 chapters, the
\* second starting right after the first ends
C24_HeadingOpensChapter ==
  (call.fn = "tokenizeText" /\ ret.done) =>
     /\ \A h \in HeadingStarts(call.a) :
          \E k \in 1..Len(ret.value.chapters) :
             /\ ret.value.chapters[k].startIndex = h
             /\ ret.value.chapters[k].title = ret.value.tokens[h + 1].chapterTitle
             /\ ret.value.chapters[k].title[1] = ret.value.tokens[h + 1].text
     /\ call.a = ExampleText =>
          /\ Len(ret.value.chapters) = 2
          /\ ret.value.chapters[2].startIndex = ret.value.chapters[1].endIndex + 1

C24_Witness ==
  /\ call.fn = "tokenizeText" /\ ret.done /\ call.a = ExampleText
  /\ Len(ret.value.tokens) = 8
  /\ ret.value.chapters[2].startIndex = 4

\* the first pass detects no heading in the text
NoHeading(text) ==
  LET st == structuredText(text)
  IN \A k \in 1..Len(st) : ~st[k].isChapterTitle

\* C25: a text with at least one token and no detected heading yields exactly
\* one chapter, titled "Beginning", from 0 to tokens.length - 1
C25_SingleBeginning ==
  (call.fn = "tokenizeText" /\ ret.done
     /\ Len(ret.value.tokens) >= 1 /\ NoHeading(call.a)) =>
       /\ Len(ret.value.chapters) = 1
       /\ ret.value.chapters[1].title = << <<"B","e","g","i","n","n","i","n","g">> >>
       /\ ret.value.chapters[1].startIndex = 0
       /\ ret.value.chapters[1].endIndex = Len(ret.value.tokens) - 1

C25_Witness ==
  /\ call.fn = "tokenizeText" /\ ret.done /\ NoHeading(call.a)
  /\ Len(ret.value.tokens) = 4
  /\ Len(ret.value.chapters) = 1 /\ ret.value.chapters[1].endIndex = 3

\* the name ends in .epub, in any case
IsEpubName(name) ==
  /\ Len(name) >= 5
  /\ name[Len(name) - 4] = "."
  /\ name[Len(name) - 3] \in {"e", "E"}
  /\ name[Len(name) - 2] \in {"p", "P"}
  /\ name[Len(name) - 1] \in {"u", "U"}
  /\ name[Len(name)] \in {"b", "B"}

\* C27: a file whose name does not end in .epub (in any case) is rejected
\* before parsing: the page goes from upload straight to error with the
\* validation message, parsing is only ever entered with an .epub name, and
\* epubData, tokens and chapters stay empty
C27_WrongNameRejected ==
  [][/\ \A file \in Files :
          (handleFileUpload(file) /\ ~IsEpubName(file.name)) =>
             /\ appState' = "error"
             /\ error' = "Please select a valid EPUB file"
             /\ inflight' = NoFile
             /\ epubData'.isNull /\ tokens' = <<>> /\ chapters' = <<>>
     /\ appState' = "parsing" => IsEpubName(inflight'.name)]_vars

C27_Witness ==
  /\ appState = "error" /\ error = "Please select a valid EPUB file"
  /\ epubData.isNull /\ tokens = <<>> /\ lastOp = "newBook"

EpubDone == call.fn = "parseEpub" /\ ret.done

\* C28: when parseEpub fails on opening the archive or resolving the
\* container or the package, the page ends in the error state with a
\* non-empty message, epubData null and no tokens and no chapters
C28_FailedParse ==
  [][(appState = "parsing" /\ ~parseEpub(inflight).ok /\ appState' # "parsing") =>
       /\ appState' = "error"
       /\ error' \in {ParsedEpub(zip).message : zip \in BrokenArchives}
       /\ error' # ""
       /\ epubData'.isNull /\ tokens' = <<>> /\ chapters' = <<>>
       /\ ~alive']_vars

\* the page shows the error of an unreadable archive, on an upload made after
\* "New Book" or "Try Again"
C28_Witness ==
  /\ appState = "error" /\ error = FailureMessage("archive")
  /\ epubData.isNull /\ tokens = <<>> /\ lastOp = "newBook" /\ ~cleanupPending

\* the spine entries of the sample archives that resolve to a content
\* document: a, b and c; d resolves to a path the archive lacks, e has no
\* href, z is not in the manifest and "" is a missing idref
ResolvedIdrefs == {"a", "b", "c"}
Spine(zip) == zip.files[PackagePath].itemrefs
Resolves(idref) == idref \in ResolvedIdrefs
WithSpine(zip, itemrefs) == Archive(zip.files[PackagePath].items, itemrefs)

\* C29: a spine entry without idref, with an idref the manifest does not
\* resolve, or resolving to a path absent from the archive is skipped: the
\* parse succeeds with the text it gives without those entries, and with
\* empty text when no entry resolves
C29_UnresolvedSkipped ==
  (EpubDone /\ call.a \in GoodArchives) =>
     /\ ret.value.ok
     /\ ret.value.text = ParsedEpub(WithSpine(call.a, SelectSeq(Spine(call.a), Resolves))).text
     /\ (\A k \in 1..Len(Spine(call.a)) : ~Resolves(Spine(call.a)[k])) => ret.value.text = <<>>

C29_Witness ==
  /\ EpubDone /\ call.a \in GoodArchives
  /\ Spine(call.a) = <<"a", "z", "b">>
  /\ ret.value.ok /\ Len(ret.value.text) > 0

\* the words of the three content documents
EntryWords(idref) ==
  CASE idref = "a" -> <<<<"O", "n", "e">>, <<"t", "w", "o", ".">>>>
    [] idref = "b" -> <<<<"T", "h", "r", "e", "e">>, <<"f", "o", "u", "r", "!">>>>
    [] idref = "c" -> <<<<"F", "i", "v", "e">>, <<"s", "i", "x">>>>
    [] OTHER -> <<>>

\* C30: the text keeps the reading order: its words are the words of the
\* resolved spine entries in spine order, whatever the order of the manifest
\* items and whatever entries are skipped in between
C30_ReadingOrder ==
  (EpubDone /\ call.a \in GoodArchives) =>
     words(ret.value.text) =
        join([k \in 1..Len(Spine(call.a)) |-> EntryWords(Spine(call.a)[k])], <<>>)

C30_Witness ==
  /\ EpubDone /\ call.a = Archive(Reversed(ManifestItems), <<"c", "d", "a">>)
  /\ words(ret.value.text) = <<<<"F", "i", "v", "e">>, <<"s", "i", "x">>, <<"O", "n", "e">>, <<"t", "w", "o", ".">>>>

\* the part of C29 about the page: a parse that succeeds with empty text
\* leads to ready, not to error
C29_EmptyTextReady ==
  [][(appState = "parsing" /\ parseEpub(inflight).ok /\ parseEpub(inflight).lines = <<>>
        /\ appState' # "parsing") =>
       (appState' = "ready" /\ error' = "" /\ tokens' = <<>>)]_vars

\* the lines of the three content documents, each a list of words
EntryLines(idref) ==
  IF EntryWords(idref) = <<>> THEN <<>> ELSE <<EntryWords(idref)>>

\* C31: the texts of consecutive resolved spine items are separated by a
\* line boundary: the tokenizer lines of the extracted text are the lines of
\* the resolved items in spine order, none of them made of two items, also
\* when neither item has a block-level element
C31_ItemsOnSeparateLines ==
  (EpubDone /\ call.a \in GoodArchives) =>
     LET st == structuredText(ret.value.text)
     IN [k \in 1..Len(st) |-> st[k].text] =
          join([k \in 1..Len(Spine(call.a)) |-> EntryLines(Spine(call.a)[k])], <<>>)

\* C31 for the spines whose resolved items all have a block-level element
C31_BlockItemsOnSeparateLines ==
  (EpubDone /\ call.a \in GoodArchives
     /\ \A k \in 1..Len(Spine(call.a)) : Spine(call.a)[k] # "c") =>
     LET st == structuredText(ret.value.text)
     IN [k \in 1..Len(st) |-> st[k].text] =
          join([k \in 1..Len(Spine(call.a)) |-> EntryLines(Spine(call.a)[k])], <<>>)

\* C32: end to end, the archive whose spine is the two items <p>One two.</p>
\* and <p>Three four!</p> gives a text with a line boundary between the items
\* and exactly the tokens One, two., Three, four! with the indices 0..3 and the
\* paragraphIndex 0, 0, 1, 1
C32_TwoParagraphs ==
  (call.fn = "loadEpub" /\ ret.done /\ call.a \in GoodArchives
     /\ Spine(call.a) = <<"a", "b">>) =>
     LET st == structuredText(ret.value.text)
         toks == ret.value.tokens
     IN /\ ret.value.ok
        /\ [k \in 1..Len(st) |-> st[k].text] = <<EntryWords("a"), EntryWords("b")>>
        /\ [k \in 1..Len(toks) |-> toks[k].text] = EntryWords("a") \o EntryWords("b")
        /\ [k \in 1..Len(toks) |-> toks[k].index] = <<0, 1, 2, 3>>
        /\ [k \in 1..Len(toks) |-> toks[k].paragraphIndex] = <<0, 0, 1, 1>>

C32_Witness ==
  /\ call.fn = "loadEpub" /\ ret.done
  /\ call.a = Archive(ManifestItems, <<"a", "b">>)
  /\ Len(ret.value.tokens) = 4
  /\ ret.value.tokens[3].paragraphIndex = 1

\* a call of tokenizeText on a text of one line, and what the line came out as
OneLine == call.fn = "tokenizeText" /\ ret.done /\ call.a \in SingleLines
IsBodyLine ==
  /\ Len(ret.value.chapters) = 1
  /\ ret.value.chapters[1].title = Beginning
  /\ \A k \in 1..Len(ret.value.tokens) : ret.value.tokens[k].chapterIndex = 0
IsHeading ==
  /\ Len(ret.value.chapters) = 1
  /\ ret.value.chapters[1].title = words(call.a)
  /\ \A k \in 1..Len(ret.value.tokens) : ret.value.tokens[k].chapterIndex = 1

\* the length of the leading run of characters of s that are in the set,
\* compared as written
WrittenRun(s, set) ==
  IF \A k \in 1..Len(s) : s[k] \in set THEN Len(s)
  ELSE (CHOOSE j \in 1..Len(s) :
          s[j] \notin set /\ \A i \in 1..(j - 1) : s[i] \in set) - 1
FollowedBySeparator(s, n) == n >= 1 /\ n < Len(s) /\ s[n + 1] \in Separators
RomanNumeralLetters == {"I", "V", "X", "L", "C", "D", "M"}

\* C33: a line of fewer than 30 characters that begins with a lower- or
\* mixed-case word built from the letters of the Roman numerals, followed by
\* a separator, is a body line and opens no chapter
C33_WordIsBodyLine ==
  OneLine =>
    LET t == trim(call.a)
        n == WrittenRun(t, RomanNumeralLetters \cup RomanLetters)
    IN (/\ Len(t) < HeadingCeiling
        /\ FollowedBySeparator(t, n)
        /\ \E k \in 1..n : t[k] \in RomanLetters) => IsBodyLine

\* C33 for the runs written in upper case: with a separator after them and
\* fewer than 30 characters they are headings
C33_UpperCaseRunIsHeading ==
  OneLine =>
    LET t == trim(call.a)
    IN (/\ Len(t) < HeadingCeiling
        /\ FollowedBySeparator(t, WrittenRun(t, RomanNumeralLetters))) => IsHeading

C33_UpperCaseWitness ==
  /\ OneLine /\ IsHeading
  /\ FollowedBySeparator(trim(call.a), WrittenRun(trim(call.a), RomanNumeralLetters))
  /\ Len(trim(call.a)) = HeadingCeiling - 1

\* the line begins with one of the keywords, in any case, and whitespace
BeginsWithKeyword(t) ==
  \E n \in 1..(Len(t) - 1) :
    /\ [k \in 1..n |-> FoldCase(t[k])] \in HeadingKeywords
    /\ t[n + 1] \in Whitespace
IsKeyword(t) == [k \in 1..Len(t) |-> FoldCase(t[k])] \in HeadingKeywords
BeginsWithNumber(t) ==
  \/ FollowedBySeparator(t, WrittenRun(t, Digits))
  \/ FollowedBySeparator(t, WrittenRun(t, RomanNumeralLetters))

\* C34: a trimmed line of 30 or more characters is a heading only if it
\* starts with a keyword and whitespace; a line that starts with digits or a
\* Roman-numeral run and a separator is a heading iff it has fewer than 30
\* characters; a keyword alone on its line is not a heading
C34_HardCeiling ==
  OneLine =>
    LET t == trim(call.a)
    IN /\ (Len(t) >= HeadingCeiling /\ IsHeading) => BeginsWithKeyword(t)
       /\ BeginsWithNumber(t) => (IsHeading <=> Len(t) < HeadingCeiling)
       /\ BeginsWithNumber(t) => (IsBodyLine <=> Len(t) >= HeadingCeiling)
       /\ IsKeyword(t) => IsBodyLine

C34_Witness ==
  /\ OneLine /\ IsBodyLine
  /\ Len(trim(call.a)) = HeadingCeiling
  /\ FollowedBySeparator(trim(call.a), WrittenRun(trim(call.a), Digits))

\* the other cases of C34 happen too
C34_LongKeywordWitness ==
  OneLine /\ IsHeading /\ Len(trim(call.a)) > HeadingCeiling
C34_KeywordAloneWitness ==
  OneLine /\ IsBodyLine /\ IsKeyword(trim(call.a)) /\ Len(call.a) > Len(trim(call.a))

\* the number of body lines before line k of the structured text
BodyLinesBefore(st, k) == Cardinality({j \in 1..(k - 1) : ~st[j].isChapterTitle})

TextDone == call.fn = "tokenizeText" /\ ret.done

\* C35: the paragraph counter starts at 0 and goes up by one after each body
\* line and never after a heading line: every token carries the number of
\* body lines before its line, so the tokens of a body line share a
\* paragraphIndex, consecutive body lines differ by 1, the paragraphIndex
\* never decreases and a heading's tokens carry that of the next body line
C35_ParagraphCounter ==
  TextDone =>
    LET st == structuredText(call.a)
        toks == ret.value.tokens
    IN /\ [k \in 1..Len(toks) |-> toks[k].paragraphIndex] =
            join([k \in 1..Len(st) |->
                    [w \in 1..Len(st[k].text) |-> BodyLinesBefore(st, k)]], <<>>)
       /\ \A k \in 1..(Len(toks) - 1) :
            toks[k + 1].paragraphIndex - toks[k].paragraphIndex \in {0, 1}
       /\ toks # <<>> => toks[1].paragraphIndex = 0

\* a heading after a body line, followed by another body line
C35_Witness ==
  /\ TextDone
  /\ LET st == structuredText(call.a)
     IN /\ Len(st) = 3
        /\ ~st[1].isChapterTitle /\ st[2].isChapterTitle /\ ~st[3].isChapterTitle
  /\ ret.value.tokens[Len(ret.value.tokens)].paragraphIndex = 1

\* x < y for two doubles that are not negative
Below(x, y) ==
  IF y.sig = <<>> THEN FALSE
  ELSE IF x.sig = <<>> THEN TRUE
  ELSE \/ x.exp < y.exp
       \/ /\ x.exp = y.exp
          /\ \E k \in 1..SigBits :
               /\ x.sig[k] < y.sig[k]
               /\ \A j \in 1..(k - 1) : x.sig[j] = y.sig[j]

\* the double nearest to 100 * startIndex / total
HundredTimesOver(startIndex, total) == Divide(FromInt(PercentMax * startIndex), total)

\* C36: after segmentation every chapter's progress is 100 * startIndex /
\* tokens.length for the final token count, lies in [0, 100), is 0 for the
\* first chapter and increases strictly along the chapter list
C36_ChapterProgress ==
  (TextDone /\ ret.value.tokens # <<>>) =>
    LET chs == ret.value.chapters
        total == Len(ret.value.tokens)
    IN /\ \A k \in 1..Len(chs) :
            /\ chs[k].progress = HundredTimesOver(chs[k].startIndex, total)
            /\ Below(chs[k].progress, FromInt(PercentMax))
       /\ chs[1].progress = Zero
       /\ \A k \in 1..(Len(chs) - 1) : Below(chs[k].progress, chs[k + 1].progress)

\* C36 without the value: the progress is the one the code computes from
\* the final token count, lies in [0, 100), is 0 for the first chapter and
\* increases strictly
C36_ProgressOrdered ==
  (TextDone /\ ret.value.tokens # <<>>) =>
    LET chs == ret.value.chapters
        total == Len(ret.value.tokens)
    IN /\ \A k \in 1..Len(chs) :
            /\ chs[k].progress =
                 Multiply(Divide(FromInt(chs[k].startIndex), total), PercentMax)
            /\ Below(chs[k].progress, FromInt(PercentMax))
       /\ chs[1].progress = Zero
       /\ \A k \in 1..(Len(chs) - 1) : Below(chs[k].progress, chs[k + 1].progress)

C36_OrderedWitness ==
  /\ TextDone
  /\ Len(ret.value.chapters) = 2
  /\ Len(ret.value.tokens) = 6
  /\ ret.value.chapters[2].startIndex = 2

\* C37: playback always terminates: once the player is Running and the user
\* does nothing more, under fair timer firing it becomes Idle, for any token
\* sequence, the empty one included, and any start index
C37_PlaybackTerminates == isPlaying ~> ~isPlaying

\* C37 for the books that have at least one token
C37_TerminatesWithTokens == (isPlaying /\ tokenCount >= 1) ~> ~isPlaying

C37_TokensWitness ==
  Settled /\ lastOp = "play" /\ ~isPlaying /\ tokenCount >= 1

\* for a book with at least one token the cursor is on a token
CursorOnToken == tokenCount >= 1 => currentIndex \in 0..(tokenCount - 1)

\* play() on the last token of a settled player: Running, cursor unchanged
PlayOnLastToken ==
  (handlePlayPause /\ Settled /\ ~isPlaying /\ IsToken(currentIndex, tokenCount)
     /\ currentIndex = tokenCount - 1)
    => (isPlaying' /\ currentIndex' = currentIndex)

\* the render of the timer's update on the last token: Idle, cursor unchanged
StopsOnLastToken ==
  (AdvanceRendered /\ IsToken(currentIndex, tokenCount) /\ currentIndex = tokenCount - 1)
    => (~isPlaying' /\ currentIndex' = currentIndex)

\* C38: for a book with at least one token the cursor is on a token in
\* every reachable state; a timer on the last token stops playback and
\* leaves the cursor there, so play() on the last token goes Running and
\* back to Idle with the cursor unchanged
C38_CursorOnToken ==
  /\ []CursorOnToken
  /\ [][PlayOnLastToken]_vars
  /\ [][StopsOnLastToken]_vars

\* play() on the last token has gone Running and come back to Idle
C38_Witness ==
  /\ Settled /\ lastOp = "play" /\ ~isPlaying /\ timers = {}
  /\ tokenCount >= 2 /\ currentIndex = tokenCount - 1

\* the moves of appState the page allows
AppStateMoves ==
  { <<"upload", "parsing">>, <<"upload", "error">>, <<"parsing", "ready">>,
    <<"parsing", "error">>, <<"ready", "upload">>, <<"error", "upload">> }

\* what the page holds in each appState
BookMatchesState ==
  IF appState = "ready"
  THEN ~epubData.isNull
  ELSE /\ appState \in {"upload", "parsing", "error"}
       /\ epubData = NoEpub
       /\ tokens = <<>>
       /\ chapters = <<>>

\* a step that changes the book leaves tokens and chapters the segmentation
\* of the text of epubData; with BookMatchesState, which holds of the initial
\* state, this makes them its segmentation in every state that is ready
BookSegmented ==
  (<<epubData, tokens, chapters>>' # <<epubData, tokens, chapters>> /\ appState' = "ready")
    => [tokens |-> tokens', chapters |-> chapters'] = tokenizeText(epubData'.text)

\* handleRestart puts the page back to its initial values
RestartResets ==
  handleRestart =>
    /\ appState' = "upload"
    /\ epubData' = NoEpub /\ tokens' = <<>> /\ chapters' = <<>>
    /\ error' = "" /\ progress' = 0

\* C39: appState only moves upload -> parsing, upload -> error, parsing ->
\* ready, parsing -> error, ready -> upload and error -> upload; in ready
\* epubData is not null and tokens and chapters are the segmentation of its
\* text, in the other states epubData is null and tokens and chapters are
\* empty; handleRestart resets epubData, tokens, chapters, error and progress
C39_AppStateMachine ==
  /\ []BookMatchesState
  /\ [][BookSegmented]_vars
  /\ [][appState' # appState => <<appState, appState'>> \in AppStateMoves]_vars
  /\ [][RestartResets]_vars

\* a book with several chapters was loaded, read and given up for a new one
C39_Witness ==
  /\ appState = "upload" /\ lastOp = "newBook" /\ opPlaying
  /\ epubData = NoEpub /\ tokens = <<>> /\ progress = 0

=============================================================================
